---- MODULE Spec2Model ----
(***************************************************************************)
(* Model of VI-Depth: the Loss Composer (src/utils/loss.py), the training  *)
(* loop (src/train.py) and the evaluation run (src/detect_planes.py).      *)
(*                                                                         *)
(* compute_loss is modelled as a state machine that follows the control    *)
(* flow of the function statement by statement; the tensor arithmetic is   *)
(* modelled exactly: pixel values are rationals, and a scalar loss is a    *)
(* number of the form a + b * exp(-1) with a, b rational, or NaN.          *)
(***************************************************************************)
EXTENDS Integers, Sequences, FiniteSets, TLC

(***************************************************************************)
(* Bounds of the model.                                                    *)
(***************************************************************************)
\* longest list of predictions handed to compute_loss
MaxScales == 2
\* largest base pixel value of a depth grid
MaxPixel == 1
\* last epoch of the longest learning schedule
MaxEpoch == 3
\* largest training set
MaxSamples == 3
\* largest batch size handed to the data loader
MaxBatch == 2
\* largest n_step_per_checkpoint
MaxCheckpointEvery == 2

(***************************************************************************)
(* Exact rational arithmetic: a rational is <<n, d>> with d > 0, reduced.  *)
(***************************************************************************)
IAbs(x) == IF x < 0 THEN -x ELSE x

RECURSIVE GCD(_, _)
GCD(a, b) == IF b = 0 THEN a ELSE GCD(b, a % b)

Rat(n, d) ==
    LET s == IF d < 0 THEN -1 ELSE 1
        g == GCD(IAbs(n), IAbs(d))
    IN  <<(s * n) \div g, (s * d) \div g>>

RInt(n) == <<n, 1>>
Zero == RInt(0)
One == RInt(1)
RAdd(x, y) == Rat(x[1] * y[2] + y[1] * x[2], x[2] * y[2])
RNeg(x) == <<-x[1], x[2]>>
RSub(x, y) == RAdd(x, RNeg(y))
RMul(x, y) == Rat(x[1] * y[1], x[2] * y[2])
RAbs(x) == <<IAbs(x[1]), x[2]>>
RLt(x, y) == x[1] * y[2] < y[1] * x[2]
RFloor(x) == x[1] \div x[2]

RECURSIVE Pow2(_)
Pow2(k) == IF k = 0 THEN 1 ELSE 2 * Pow2(k - 1)

RECURSIVE RSum(_)
RSum(s) == IF Len(s) = 0 THEN Zero ELSE RAdd(Head(s), RSum(Tail(s)))

(***************************************************************************)
(* Scalars (0-dimensional float tensors): a + b * exp(-1), or NaN.  NaN is *)
(* absorbing under + and *, as in IEEE arithmetic.                         *)
(***************************************************************************)
Scalar(a, b) == [nan |-> FALSE, a |-> a, b |-> b]
NaN == [nan |-> TRUE, a |-> Zero, b |-> Zero]
FromRat(r) == Scalar(r, Zero)
SZero == FromRat(Zero)
SAdd(x, y) == IF x.nan \/ y.nan THEN NaN
              ELSE Scalar(RAdd(x.a, y.a), RAdd(x.b, y.b))
\* rational r times scalar x
SScale(r, x) == IF x.nan THEN NaN ELSE Scalar(RMul(r, x.a), RMul(r, x.b))

RECURSIVE SSum(_)
SSum(s) == IF Len(s) = 0 THEN SZero ELSE SAdd(Head(s), SSum(Tail(s)))

\* torch.mean of a 1-D tensor of rationals: NaN when the tensor is empty
RMean(s) == IF Len(s) = 0 THEN NaN ELSE FromRat(RMul(RSum(s), <<1, Len(s)>>))
\* torch.mean of a 1-D tensor of scalars
SMean(s) == IF Len(s) = 0 THEN NaN ELSE SScale(<<1, Len(s)>>, SSum(s))

\* torch.exp(-m) on the arguments the model's images produce
ExpNeg(m) == CASE m = Zero -> Scalar(One, Zero)
               [] m = One  -> Scalar(Zero, One)

(***************************************************************************)
(* Tensors.  A grid is [h, w, v] with v its h * w entries in row-major     *)
(* order; the batch dimension is 1.  A depth map has one channel, an image *)
(* is a sequence of channel grids.                                         *)
(***************************************************************************)
Grid(h, w, f) ==
    [h |-> h, w |-> w,
     v |-> [k \in 1..(h * w) |-> f[((k - 1) \div w) + 1, ((k - 1) % w) + 1]]]

At(T, r, c) == T.v[(r - 1) * T.w + c]
Shape(T) == <<T.h, T.w>>

\* T[mask]: the entries of T where the boolean grid mask is true, row-major
MaskSelect(T, mask) ==
    LET idx == SelectSeq([k \in 1..Len(mask.v) |-> k], LAMBDA k : mask.v[k])
    IN  [j \in 1..Len(idx) |-> T.v[idx[j]]]

(***************************************************************************)
(* torch.nn.functional.interpolate(mode='bicubic', align_corners=False):   *)
(* cubic convolution with A = -3/4 over four clamped taps per axis.        *)
(***************************************************************************)
CubicA == <<-3, 4>>
\* weight of a tap at distance x <= 1
CubicConv1(x) ==
    RAdd(RMul(RSub(RMul(RAdd(CubicA, RInt(2)), x), RAdd(CubicA, RInt(3))),
              RMul(x, x)), One)
\* weight of a tap at distance 1 < x < 2
CubicConv2(x) ==
    RSub(RMul(RAdd(RMul(RSub(RMul(CubicA, x), RMul(RInt(5), CubicA)), x),
                   RMul(RInt(8), CubicA)), x),
         RMul(RInt(4), CubicA))
CubicCoeffs(t) ==
    <<CubicConv2(RAdd(t, One)), CubicConv1(t),
      CubicConv1(RSub(One, t)), CubicConv2(RSub(RInt(2), t))>>

\* source coordinate of output index i (0-based): (i + 1/2) * in/out - 1/2
SrcIndex(i, in, out) == Rat((2 * i + 1) * in - out, 2 * out)
Clamp(i, lo, hi) == IF i < lo THEN lo ELSE IF i > hi THEN hi ELSE i

Interpolate(T, H, W) ==
    Grid(H, W, [r \in 1..H, c \in 1..W |->
        LET y  == SrcIndex(r - 1, T.h, H)
            x  == SrcIndex(c - 1, T.w, W)
            iy == RFloor(y)
            ix == RFloor(x)
            cy == CubicCoeffs(RSub(y, RInt(iy)))
            cx == CubicCoeffs(RSub(x, RInt(ix)))
        IN  RSum([k \in 1..16 |->
                LET ky == ((k - 1) \div 4) + 1
                    kx == ((k - 1) % 4) + 1
                IN  RMul(RMul(cy[ky], cx[kx]),
                         At(T, Clamp(iy - 2 + ky, 0, T.h - 1) + 1,
                               Clamp(ix - 2 + kx, 0, T.w - 1) + 1))])])

(***************************************************************************)
(* The three supervised loss families, on 1-D tensors of equal length.     *)
(***************************************************************************)
l1_loss(src, tgt) ==
    RMean([k \in 1..Len(src) |-> RAbs(RSub(src[k], tgt[k]))])

l2_loss(src, tgt) ==
    RMean([k \in 1..Len(src) |->
              RMul(RSub(src[k], tgt[k]), RSub(src[k], tgt[k]))])

\* torch smooth_l1_loss with its default beta = 1
smooth_l1_loss(src, tgt) ==
    RMean([k \in 1..Len(src) |->
              LET d == RAbs(RSub(src[k], tgt[k]))
              IN  IF RLt(d, One) THEN RMul(<<1, 2>>, RMul(d, d))
                  ELSE RSub(d, <<1, 2>>)])

(***************************************************************************)
(* Edge-aware smoothness.                                                  *)
(***************************************************************************)
gradient_yx(T) ==
    [dy |-> Grid(T.h - 1, T.w,
                 [r \in 1..(T.h - 1), c \in 1..T.w |->
                     RSub(At(T, r, c), At(T, r + 1, c))]),
     dx |-> Grid(T.h, T.w - 1,
                 [r \in 1..T.h, c \in 1..(T.w - 1) |->
                     RSub(At(T, r, c), At(T, r, c + 1))])]

\* exp(-mean over the channels of |g|), per pixel, for image gradients gs
EdgeWeights(gs) ==
    [k \in 1..Len(gs[1].v) |->
        ExpNeg(RMul(RSum([ch \in 1..Len(gs) |-> RAbs(gs[ch].v[k])]),
                    <<1, Len(gs)>>))]

smoothness_loss_func(predict, image) ==
    LET p  == gradient_yx(predict)
        gx == [ch \in 1..Len(image) |-> gradient_yx(image[ch]).dx]
        gy == [ch \in 1..Len(image) |-> gradient_yx(image[ch]).dy]
        weights_x == EdgeWeights(gx)
        weights_y == EdgeWeights(gy)
        smoothness_x ==
            SMean([k \in 1..Len(p.dx.v) |-> SScale(RAbs(p.dx.v[k]), weights_x[k])])
        smoothness_y ==
            SMean([k \in 1..Len(p.dy.v) |-> SScale(RAbs(p.dy.v[k]), weights_y[k])])
    IN  SAdd(smoothness_x, smoothness_y)

(***************************************************************************)
(* Inputs of one invocation.                                               *)
(***************************************************************************)
\* height and width of the ground truth (and of the co-registered image)
TargetHeight == 2
TargetWidth == 2
\* channels of the image argument
NumChannels == 3

\* the h x w grid of value v everywhere, pixel number k (0: none) raised by 1
TensorOf(h, w, v, k) ==
    Grid(h, w, [r \in 1..h, c \in 1..w |->
                   RInt(v + (IF (r - 1) * w + c = k THEN 1 ELSE 0))])

\* flat grids at the least and the greatest value, and each with one pixel raised
DepthGrids(h, w) == {TensorOf(h, w, v, k) : v \in {0, MaxPixel}, k \in {0, 1}}

GroundTruths == DepthGrids(TargetHeight, TargetWidth)

\* predictions at ground-truth resolution, one coarser and one finer
Predictions ==
    DepthGrids(TargetHeight, TargetWidth)
        \cup {TensorOf(TargetHeight - 1, TargetWidth - 1, 1, 0)}
        \cup {TensorOf(2 * TargetHeight, 2 * TargetWidth, 1, 1)}

\* the predictions that follow the first one in a list: a flat grid and a
\* grid with one pixel raised, at ground-truth resolution
LaterPredictions ==
    {TensorOf(TargetHeight, TargetWidth, 0, 0),
     TensorOf(TargetHeight, TargetWidth, MaxPixel, 1)}

\* the lists of at most n predictions
RECURSIVE ListsOf(_)
ListsOf(n) ==
    IF n = 0 THEN {<<>>}
    ELSE LET shorter == ListsOf(n - 1)
         IN  shorter
                 \cup {Append(l, x) : l \in {m \in shorter : Len(m) = n - 1},
                                     x \in IF n = 1 THEN Predictions
                                           ELSE LaterPredictions}

\* output_depth is a single tensor or a list of tensors
OutputDepths ==
    {[isList |-> FALSE, items |-> <<T>>] : T \in Predictions}
        \cup {[isList |-> TRUE, items |-> l] : l \in ListsOf(MaxScales)}

\* grey images with intensities 0 and 1
Images ==
    {[ch \in 1..NumChannels |-> TensorOf(TargetHeight, TargetWidth, 0, k)] : k \in {0, 1}}

KnownLossFuncs == {"l1", "l2", "smoothl1"}
LossFuncs == KnownLossFuncs \cup {"huber"}
SmoothnessWeights == {RInt(-1), Zero, RInt(2)}
KernelSizes == {1, 3}

(***************************************************************************)
(* State: the arguments, the locals and the outcome of compute_loss.       *)
(***************************************************************************)
VARIABLES image, output_depth, ground_truth, loss_func, w_smoothness,
          loss_smoothness_kernel_size,
          pc, validity_map_ground_truth, scale, output, w_scale,
          loss, loss_supervised, loss_smoothness, loss_info,
          resized, smoothness_variant, returned, raised

\* train (src/train.py): its arguments, its locals, the optimizer, the
\* data loader, the checkpoints written and the position in the function
VARIABLES learning_rates, learning_schedule, n_train_sample, batch_size,
          n_step_per_checkpoint, n_train_step,
          learning_schedule_pos, learning_rate, lr, train_step, epoch,
          loader_batch_size, unseen, sample_i, optimizer_steps, saved,
          tpc, train_raised

\* a caller of compute_loss that calls it more than once: which of its calls
\* is running, the arguments it passed, and the first call it made
VARIABLES call, passed, first

\* the tensors of one training step (src/train.py lines 156-222) and of the
\* evaluation run (src/detect_planes.py lines 139-233), and the position in
\* the one or the other
VARIABLES mode, dpc,
          device, min_pred_depth, max_pred_depth, loaded, sparse_depth, aliased,
          sparse_depth_valid, batch_x, batch_d, forward_x, forward_d,
          min_depth, max_depth, n_images, image_i, target_depth, target_mask,
          target_depth_inv, avg_error_w_int_depth, avg_error_w_pred, accumulated,
          summary

args == <<image, ground_truth, loss_func, w_smoothness, loss_smoothness_kernel_size>>
locals == <<validity_map_ground_truth, scale, output, w_scale,
            loss, loss_supervised, loss_smoothness, loss_info>>
loss_vars == <<args, output_depth, pc, locals, resized, smoothness_variant,
               returned, raised>>
train_vars == <<learning_rates, learning_schedule, n_train_sample, batch_size,
                n_step_per_checkpoint, n_train_step,
                learning_schedule_pos, learning_rate, lr, train_step, epoch,
                loader_batch_size, unseen, sample_i, optimizer_steps, saved,
                tpc, train_raised>>
\* the state of the callers of compute_loss
call_vars == <<call, passed, first>>
step_vars == <<device, min_pred_depth, max_pred_depth, loaded, sparse_depth,
               aliased, sparse_depth_valid, batch_x, batch_d, forward_x, forward_d>>
eval_vars == <<min_depth, max_depth, n_images, image_i, target_depth, target_mask,
               target_depth_inv, avg_error_w_int_depth, avg_error_w_pred,
               accumulated, summary>>
data_vars == <<mode, dpc, step_vars, eval_vars>>
callers == <<train_vars, call_vars, data_vars>>
vars == <<loss_vars, callers>>
\* the state of compute_loss other than the loss name train passes on
loss_rest == <<image, output_depth, ground_truth, w_smoothness,
               loss_smoothness_kernel_size, pc, locals, resized,
               smoothness_variant, returned, raised>>
\* what the training loop leaves alone
outside_train == <<loss_rest, call_vars, data_vars>>
\* what the tensors of a training step, and an evaluation run, leave alone
outside_step == <<mode, eval_vars, loss_vars, train_vars, call_vars>>
outside_eval == <<mode, step_vars, loss_vars, train_vars, call_vars>>

NoTensor == [h |-> 0, w |-> 0, v |-> <<>>]
NoInfo == [loss |-> SZero, loss_supervised |-> SZero, loss_smoothness |-> SZero]
Pending == [kind |-> "pending", loss |-> SZero, loss_info |-> NoInfo]
None == [kind |-> "None", loss |-> SZero, loss_info |-> NoInfo]

\* train has not been called
TrainIdle ==
    /\ learning_rates = <<>>
    /\ learning_schedule = <<>>
    /\ n_train_sample = 0
    /\ batch_size = 0
    /\ n_step_per_checkpoint = 0
    /\ n_train_step = 0
    /\ learning_schedule_pos = 0
    /\ learning_rate = 0
    /\ lr = 0
    /\ train_step = 0
    /\ epoch = 0
    /\ loader_batch_size = 0
    /\ unseen = 0
    /\ sample_i = 0
    /\ optimizer_steps = 0
    /\ saved = <<>>
    /\ tpc = "idle"
    /\ train_raised = "none"

NoArguments ==
    [image |-> <<>>, output_depth |-> [isList |-> FALSE, items |-> <<>>],
     ground_truth |-> NoTensor, loss_func |-> "", w_smoothness |-> Zero,
     loss_smoothness_kernel_size |-> 0]
NoCall == [args |-> NoArguments, returned |-> Pending, raised |-> "none",
           between |-> FALSE]

\* no caller calls compute_loss a second time
CallsIdle ==
    /\ call = "none"
    /\ passed = NoArguments
    /\ first = NoCall

\* an absent bound (min_depth = None) and a bound of value q
NoBound == [none |-> TRUE, q |-> Zero]
Bound(q) == [none |-> FALSE, q |-> q]
\* the sum and the count of an averager that has accumulated nothing
NoFloat == [m |-> 0, e |-> 0]
EmptyAverager == [rmse_sum |-> NoFloat, total_count |-> 0]
NoSummary == [kind |-> "none", ga_only |-> NoFloat, ga_sml |-> NoFloat]

\* no training step
StepIdle ==
    /\ device = "none"
    /\ min_pred_depth = NoBound
    /\ max_pred_depth = NoBound
    /\ loaded = <<>>
    /\ sparse_depth = <<>>
    /\ aliased = FALSE
    /\ sparse_depth_valid = <<>>
    /\ batch_x = <<>>
    /\ batch_d = <<>>
    /\ forward_x = <<>>
    /\ forward_d = <<>>

\* no evaluation run
EvalIdle ==
    /\ min_depth = NoBound
    /\ max_depth = NoBound
    /\ n_images = 0
    /\ image_i = 0
    /\ target_depth = NoTensor
    /\ target_mask = NoTensor
    /\ target_depth_inv = NoTensor
    /\ avg_error_w_int_depth = EmptyAverager
    /\ avg_error_w_pred = EmptyAverager
    /\ accumulated = <<>>
    /\ summary = NoSummary

DataIdle ==
    /\ mode = "none"
    /\ dpc = "idle"
    /\ StepIdle
    /\ EvalIdle

CallersIdle == TrainIdle /\ CallsIdle /\ DataIdle

\* compute_loss has not been called (its loss_func is left to the caller)
LossIdle ==
    /\ image = <<>>
    /\ output_depth = [isList |-> FALSE, items |-> <<>>]
    /\ ground_truth = NoTensor
    /\ w_smoothness = Zero
    /\ loss_smoothness_kernel_size = 0
    /\ pc = "idle"
    /\ validity_map_ground_truth = NoTensor
    /\ scale = 0
    /\ output = NoTensor
    /\ w_scale = Zero
    /\ loss = SZero
    /\ loss_supervised = SZero
    /\ loss_smoothness = SZero
    /\ loss_info = NoInfo
    /\ resized = FALSE
    /\ smoothness_variant = "none"
    /\ returned = Pending
    /\ raised = "none"

\* one call of compute_loss, at its first statement
InitLoss ==
    /\ image \in Images
    /\ output_depth \in OutputDepths
    /\ ground_truth \in GroundTruths
    /\ loss_func \in LossFuncs
    /\ w_smoothness \in SmoothnessWeights
    /\ loss_smoothness_kernel_size \in KernelSizes
    /\ pc = "entry"
    /\ validity_map_ground_truth = NoTensor
    /\ scale = 0
    /\ output = NoTensor
    /\ w_scale = Zero
    /\ loss = SZero
    /\ loss_supervised = SZero
    /\ loss_smoothness = SZero
    /\ loss_info = NoInfo
    /\ resized = FALSE
    /\ smoothness_variant = "none"
    /\ returned = Pending
    /\ raised = "none"

Init == CallersIdle /\ InitLoss

\* the mask with >= in place of >
ValidityMap_NonNegative(target) ==
    Grid(target.h, target.w,
         [r \in 1..target.h, c \in 1..target.w |-> ~RLt(At(target, r, c), Zero)])

\* line 15: ground_truth > 0
ValidityMap(target) ==
    Grid(target.h, target.w,
         [r \in 1..target.h, c \in 1..target.w |-> RLt(Zero, At(target, r, c))])

\* the sub-totals kept from the call before
Enter_KeepsSubtotals ==
    /\ pc = "entry"
    /\ loss' = SZero
    /\ validity_map_ground_truth' = ValidityMap(ground_truth)
    /\ output_depth' = [isList |-> TRUE, items |-> output_depth.items]
    /\ pc' = "for"
    /\ UNCHANGED <<args, scale, output, w_scale, loss_info, loss_supervised,
                   loss_smoothness, resized, smoothness_variant, returned, raised>>
    /\ UNCHANGED callers

\* lines 11-18: the accumulators, the validity mask, a lone tensor is wrapped
Enter ==
    /\ pc = "entry"
    /\ loss' = SZero
    /\ loss_supervised' = SZero
    /\ loss_smoothness' = SZero
    /\ validity_map_ground_truth' = ValidityMap(ground_truth)
    /\ output_depth' = [isList |-> TRUE, items |-> output_depth.items]
    /\ pc' = "for"
    /\ UNCHANGED <<args, scale, output, w_scale, loss_info,
                   resized, smoothness_variant, returned, raised>>
    /\ UNCHANGED callers

\* line 20: the loop takes the next prediction
ForNext ==
    /\ pc = "for"
    /\ scale < Len(output_depth.items)
    /\ output' = output_depth.items[scale + 1]
    /\ pc' = "resize"
    /\ UNCHANGED <<args, output_depth, validity_map_ground_truth, scale, w_scale,
                   loss, loss_supervised, loss_smoothness, loss_info,
                   resized, smoothness_variant, returned, raised>>
    /\ UNCHANGED callers

\* line 20: the list is exhausted; control falls off the end of the function
ForExhausted ==
    /\ pc = "for"
    /\ scale >= Len(output_depth.items)
    /\ returned' = None
    /\ pc' = "done"
    /\ UNCHANGED <<args, output_depth, locals, resized, smoothness_variant, raised>>
    /\ UNCHANGED callers

\* line 24: the condition under which the prediction is resized
NeedsResize(out, target) == out.h > target.h /\ out.w > target.w

\* lines 21-29
Resized(out, target) ==
    IF NeedsResize(out, target) THEN Interpolate(out, target.h, target.w) ELSE out

\* the weights in reverse order, 1 / 2^i
WScale_Reversed(n, i) == <<1, Pow2(i)>>

\* the exponent one too large, 1 / 2^(n - i)
WScale_OffByOne(n, i) == <<1, Pow2(n - i)>>

\* line 31
WScale(n, i) == <<1, Pow2(n - i - 1)>>

\* lines 21-31
Resize ==
    /\ pc = "resize"
    /\ output' = Resized(output, ground_truth)
    /\ resized' = NeedsResize(output, ground_truth)
    /\ w_scale' = WScale(Len(output_depth.items), scale)
    /\ pc' = "supervised"
    /\ UNCHANGED <<args, output_depth, validity_map_ground_truth, scale,
                   loss, loss_supervised, loss_smoothness, loss_info,
                   smoothness_variant, returned, raised>>
    /\ UNCHANGED callers

\* the loss family selected at lines 33-46
LossFamily(name, src, tgt) ==
    CASE name = "l1" -> l1_loss(src, tgt)
      [] name = "l2" -> l2_loss(src, tgt)
      [] name = "smoothl1" -> smooth_l1_loss(src, tgt)

\* lines 33-46, for a prediction of the mask's shape
SupervisedTerm(name, w, out, target, mask) ==
    SScale(w, LossFamily(name, MaskSelect(out, mask), MaskSelect(target, mask)))

\* lines 33-49: an unknown name raises before anything is indexed; indexing
\* with a mask of another shape raises IndexError
Supervised ==
    /\ pc = "supervised"
    /\ IF loss_func \notin KnownLossFuncs
       THEN /\ raised' = "ValueError: Unknown loss function"
            /\ pc' = "done"
            /\ UNCHANGED loss_supervised
       ELSE IF Shape(output) # Shape(validity_map_ground_truth)
       THEN /\ raised' = "IndexError"
            /\ pc' = "done"
            /\ UNCHANGED loss_supervised
       ELSE /\ loss_supervised' =
                   SAdd(loss_supervised,
                        SupervisedTerm(loss_func, w_scale, output, ground_truth,
                                       validity_map_ground_truth))
            /\ pc' = "smoothness"
            /\ UNCHANGED raised
    /\ UNCHANGED <<args, output_depth, validity_map_ground_truth, scale, output,
                   w_scale, loss, loss_smoothness, loss_info,
                   resized, smoothness_variant, returned>>
    /\ UNCHANGED callers

\* lines 51-64: which smoothness variant the invocation evaluates
SmoothnessVariant(w, kernel_size) ==
    IF RLt(Zero, w) /\ kernel_size <= 1 THEN "finite_difference" ELSE "none"

\* lines 51-64; here output has the shape of ground_truth and of image
Smoothness ==
    /\ pc = "smoothness"
    /\ smoothness_variant' =
           SmoothnessVariant(w_smoothness, loss_smoothness_kernel_size)
    /\ loss_smoothness' =
           IF smoothness_variant' = "finite_difference"
           THEN SAdd(loss_smoothness,
                     SScale(w_scale, smoothness_loss_func(output, image)))
           ELSE loss_smoothness
    /\ pc' = "total"
    /\ UNCHANGED <<args, output_depth, validity_map_ground_truth, scale, output,
                   w_scale, loss, loss_supervised, loss_info,
                   resized, returned, raised>>
    /\ UNCHANGED callers

\* the smoothness term added without its weight
TotalLoss_Unweighted(sup, w, smooth) == SAdd(sup, smooth)

\* line 66
TotalLoss(sup, w, smooth) == SAdd(sup, SScale(w, smooth))

\* lines 66-74, inside the loop body: the function returns in the iteration
\* that computed the total
Return ==
    /\ pc = "total"
    /\ loss' = TotalLoss(loss_supervised, w_smoothness, loss_smoothness)
    /\ loss_info' = [loss |-> loss',
                     loss_supervised |-> loss_supervised,
                     loss_smoothness |-> loss_smoothness]
    /\ returned' = [kind |-> "tuple", loss |-> loss', loss_info |-> loss_info']
    /\ pc' = "done"
    /\ UNCHANGED <<args, output_depth, validity_map_ground_truth, scale, output,
                   w_scale, loss_supervised, loss_smoothness,
                   resized, smoothness_variant, raised>>
    /\ UNCHANGED callers

Next ==
    \/ Enter
    \/ ForNext
    \/ ForExhausted
    \/ Resize
    \/ Supervised
    \/ Smoothness
    \/ Return

Spec == Init /\ [][Next]_vars

(***************************************************************************)
(* The supervised sub-total a call returns, as a function of its inputs:   *)
(* the body of the loop runs for the first prediction and returns.         *)
(* Defined for a known loss name and a first prediction that has the       *)
(* ground truth's shape after line 24.                                     *)
(***************************************************************************)
SupervisedOfCall(items, target, name) ==
    SupervisedTerm(name, WScale(Len(items), 0), Resized(items[1], target),
                   target, ValidityMap(target))

(***************************************************************************)
(* A caller that calls compute_loss again: with the arguments of its first *)
(* call, directly or after a call with other arguments.  The module holds  *)
(* no global and compute_loss no default argument, so nothing of a call    *)
(* outlives it but the objects the caller passed; the locals are left as   *)
(* the call before left them, so that a local read before it is assigned   *)
(* would show.                                                             *)
(***************************************************************************)
Arguments ==
    [image |-> image, output_depth |-> output_depth, ground_truth |-> ground_truth,
     loss_func |-> loss_func, w_smoothness |-> w_smoothness,
     loss_smoothness_kernel_size |-> loss_smoothness_kernel_size]

\* the arguments of the call made in between
OtherArguments ==
    [image |-> [ch \in 1..NumChannels |-> TensorOf(TargetHeight, TargetWidth, 0, 1)],
     output_depth |-> [isList |-> FALSE,
                       items |-> <<TensorOf(TargetHeight, TargetWidth, MaxPixel, 1)>>],
     ground_truth |-> TensorOf(TargetHeight, TargetWidth, MaxPixel, 0),
     loss_func |-> "l2", w_smoothness |-> RInt(2),
     loss_smoothness_kernel_size |-> 1]

\* the first call: any arguments with the finite-difference smoothness
\* selected by the kernel size and a weight that is zero or positive
InitCalls ==
    /\ TrainIdle
    /\ DataIdle
    /\ InitLoss
    /\ loss_smoothness_kernel_size = 1
    /\ ~RLt(w_smoothness, Zero)
    /\ call = "first"
    /\ passed = Arguments
    /\ first = NoCall

\* the caller passes a to compute_loss
Call(a) ==
    /\ image' = a.image
    /\ output_depth' = a.output_depth
    /\ ground_truth' = a.ground_truth
    /\ loss_func' = a.loss_func
    /\ w_smoothness' = a.w_smoothness
    /\ loss_smoothness_kernel_size' = a.loss_smoothness_kernel_size
    /\ passed' = a
    /\ pc' = "entry"
    /\ returned' = Pending
    /\ raised' = "none"
    /\ UNCHANGED <<locals, resized, smoothness_variant, train_vars, data_vars>>

\* after its first call the caller calls with other arguments
CallOther ==
    /\ pc = "done"
    /\ call = "first"
    /\ first' = [args |-> passed, returned |-> returned, raised |-> raised,
                 between |-> TRUE]
    /\ call' = "other"
    /\ Call(OtherArguments)

\* the caller calls again with the arguments of its first call
CallAgain ==
    /\ pc = "done"
    /\ call \in {"first", "other"}
    /\ first' = IF call = "first"
                THEN [args |-> passed, returned |-> returned, raised |-> raised,
                      between |-> FALSE]
                ELSE first
    /\ call' = "again"
    /\ Call(first'.args)

NextCalls ==
    \/ Next
    \/ CallOther
    \/ CallAgain

SpecCalls == InitCalls /\ [][NextCalls]_vars

(***************************************************************************)
(* The training loop, src/train.py lines 86-270.                           *)
(*                                                                         *)
(* learning_schedule_pos is the 0-based index of the code; sequences are   *)
(* 1-based, so learning_schedule[learning_schedule_pos] of the code is     *)
(* learning_schedule[learning_schedule_pos + 1] here.  The data loader is  *)
(* torch's DataLoader with drop_last at its default (False): every epoch   *)
(* it delivers the samples in batches of the size it was built with, the   *)
(* last batch holding the remainder.  compute_ls_solution and the scale    *)
(* map interpolator are called per sample; either call may raise.          *)
(***************************************************************************)
StrictlyIncreasing(s) == \A k \in 1..(Len(s) - 1) : s[k] < s[k + 1]

\* the schedules train is called with: strictly increasing epoch numbers
Schedules ==
    {s \in UNION {[1..n -> 1..MaxEpoch] : n \in 1..MaxEpoch} : StrictlyIncreasing(s)}

\* one rate per schedule entry, all different, falling as in line 456
Rates(n) == [k \in 1..n |-> n + 1 - k]

\* the loss names train is called with: the one of line 463 and an unknown one
TrainLossFuncs == {"smoothl1", "huber"}

\* whether a call made by the training step returns or raises
CallOutcomes == {"returns", "raises"}

Last(s) == s[Len(s)]

Min(a, b) == IF a < b THEN a ELSE b

\* line 87: np.ceil(n / b) as an integer
CeilDiv(n, b) == IF n % b = 0 THEN n \div b ELSE (n \div b) + 1

InitTrain ==
    /\ learning_schedule \in Schedules
    /\ learning_rates = Rates(Len(learning_schedule))
    /\ n_train_sample \in 1..MaxSamples
    /\ batch_size \in 1..MaxBatch
    /\ n_step_per_checkpoint \in 1..MaxCheckpointEvery
    /\ loss_func \in TrainLossFuncs
    /\ n_train_step = 0
    /\ learning_schedule_pos = 0
    /\ learning_rate = 0
    /\ lr = 0
    /\ train_step = 0
    /\ epoch = 0
    /\ loader_batch_size = 0
    /\ unseen = 0
    /\ sample_i = 0
    /\ optimizer_steps = 0
    /\ saved = <<>>
    /\ tpc = "start"
    /\ train_raised = "none"
    /\ LossIdle
    /\ CallsIdle
    /\ DataIdle

train_args == <<learning_rates, learning_schedule, n_train_sample,
                n_step_per_checkpoint, loss_func>>

\* lines 86-138: the step count, the loader, the first rate, the optimizer
Begin ==
    /\ tpc = "start"
    /\ n_train_step' = Last(learning_schedule) * CeilDiv(n_train_sample, batch_size)
    /\ loader_batch_size' = batch_size
    /\ learning_schedule_pos' = 0
    /\ learning_rate' = learning_rates[1]
    /\ lr' = learning_rate'
    /\ train_step' = 0
    /\ tpc' = "for_epoch"
    /\ UNCHANGED <<train_args, batch_size, epoch, unseen, sample_i,
                   optimizer_steps, saved, train_raised>>
    /\ UNCHANGED outside_train

\* the comparison one epoch early
ScheduleAdvances_Early(e, schedule, pos) == e >= schedule[pos + 1]

\* line 147
ScheduleAdvances(e, schedule, pos) == e > schedule[pos + 1]

\* lines 143-153: the next epoch; the schedule position moves at most once,
\* and an index past the end of either list raises IndexError
ForEpoch ==
    /\ tpc = "for_epoch"
    /\ epoch < Last(learning_schedule)
    /\ epoch' = epoch + 1
    /\ IF learning_schedule_pos + 1 > Len(learning_schedule)
       THEN /\ train_raised' = "IndexError"
            /\ tpc' = "raised"
            /\ UNCHANGED <<learning_schedule_pos, learning_rate, lr, unseen>>
       ELSE IF ScheduleAdvances(epoch', learning_schedule, learning_schedule_pos)
       THEN IF learning_schedule_pos + 2 > Len(learning_rates)
            THEN /\ train_raised' = "IndexError"
                 /\ tpc' = "raised"
                 /\ learning_schedule_pos' = learning_schedule_pos + 1
                 /\ UNCHANGED <<learning_rate, lr, unseen>>
            ELSE /\ learning_schedule_pos' = learning_schedule_pos + 1
                 /\ learning_rate' = learning_rates[learning_schedule_pos' + 1]
                 /\ lr' = learning_rate'
                 /\ unseen' = n_train_sample
                 /\ tpc' = "for_batch"
                 /\ UNCHANGED train_raised
       ELSE /\ unseen' = n_train_sample
            /\ tpc' = "for_batch"
            /\ UNCHANGED <<learning_schedule_pos, learning_rate, lr, train_raised>>
    /\ UNCHANGED <<train_args, batch_size, n_train_step, train_step,
                   loader_batch_size, sample_i, optimizer_steps, saved>>
    /\ UNCHANGED outside_train

\* line 143: the range of epochs is exhausted
ForEpochEnd ==
    /\ tpc = "for_epoch"
    /\ epoch >= Last(learning_schedule)
    /\ tpc' = "final"
    /\ UNCHANGED <<train_args, batch_size, n_train_step, learning_schedule_pos,
                   learning_rate, lr, train_step, epoch, loader_batch_size,
                   unseen, sample_i, optimizer_steps, saved, train_raised>>
    /\ UNCHANGED outside_train

\* lines 156-173: the loader delivers the next batch; line 170 rebinds
\* batch_size to the number of samples in it
ForBatch ==
    /\ tpc = "for_batch"
    /\ unseen > 0
    /\ train_step' = train_step + 1
    /\ batch_size' = Min(loader_batch_size, unseen)
    /\ unseen' = unseen - batch_size'
    /\ sample_i' = 0
    /\ tpc' = "for_sample"
    /\ UNCHANGED <<train_args, n_train_step, learning_schedule_pos,
                   learning_rate, lr, epoch, loader_batch_size,
                   optimizer_steps, saved, train_raised>>
    /\ UNCHANGED outside_train

\* line 156: the loader is exhausted for this epoch
ForBatchEnd ==
    /\ tpc = "for_batch"
    /\ unseen = 0
    /\ tpc' = "for_epoch"
    /\ UNCHANGED <<train_args, batch_size, n_train_step, learning_schedule_pos,
                   learning_rate, lr, train_step, epoch, loader_batch_size,
                   unseen, sample_i, optimizer_steps, saved, train_raised>>
    /\ UNCHANGED outside_train

\* a handler that swallows the exception and goes on with the step
Propagate_Swallowed(site) == IF site = "compute_loss" THEN "optimize" ELSE "append"

\* lines 156-244: no call of the training step is inside a try statement,
\* so an exception raised by a callee leaves train
Propagate(site) == "raised"

\* lines 175-180: global alignment of sample i
Align ==
    /\ tpc = "for_sample"
    /\ sample_i < batch_size
    /\ \E outcome \in CallOutcomes :
         IF outcome = "raises"
         THEN /\ train_raised' = "compute_ls_solution"
              /\ tpc' = Propagate("compute_ls_solution")
         ELSE /\ tpc' = "interpolate"
              /\ UNCHANGED train_raised
    /\ UNCHANGED <<train_args, batch_size, n_train_step, learning_schedule_pos,
                   learning_rate, lr, train_step, epoch, loader_batch_size,
                   unseen, sample_i, optimizer_steps, saved>>
    /\ UNCHANGED outside_train

\* lines 181-191: the scale map of sample i
Interpolate2D ==
    /\ tpc = "interpolate"
    /\ \E outcome \in CallOutcomes :
         IF outcome = "raises"
         THEN /\ train_raised' = "generate_interpolated_scale_map"
              /\ tpc' = Propagate("generate_interpolated_scale_map")
         ELSE /\ tpc' = "append"
              /\ UNCHANGED train_raised
    /\ UNCHANGED <<train_args, batch_size, n_train_step, learning_schedule_pos,
                   learning_rate, lr, train_step, epoch, loader_batch_size,
                   unseen, sample_i, optimizer_steps, saved>>
    /\ UNCHANGED outside_train

\* lines 193-210: sample i joins the batch
AppendSample ==
    /\ tpc = "append"
    /\ sample_i' = sample_i + 1
    /\ tpc' = "for_sample"
    /\ UNCHANGED <<train_args, batch_size, n_train_step, learning_schedule_pos,
                   learning_rate, lr, train_step, epoch, loader_batch_size,
                   unseen, optimizer_steps, saved, train_raised>>
    /\ UNCHANGED outside_train

\* lines 212-222: the batch is stacked and the network is run
Forward ==
    /\ tpc = "for_sample"
    /\ sample_i >= batch_size
    /\ tpc' = "loss"
    /\ UNCHANGED <<train_args, batch_size, n_train_step, learning_schedule_pos,
                   learning_rate, lr, train_step, epoch, loader_batch_size,
                   unseen, sample_i, optimizer_steps, saved, train_raised>>
    /\ UNCHANGED outside_train

\* lines 230-237: compute_loss raises for a loss name it does not know
\* (src/utils/loss.py lines 48-49)
ComputeLoss ==
    /\ tpc = "loss"
    /\ IF loss_func \notin KnownLossFuncs
       THEN /\ train_raised' = "compute_loss"
            /\ tpc' = Propagate("compute_loss")
       ELSE /\ tpc' = "optimize"
            /\ UNCHANGED train_raised
    /\ UNCHANGED <<train_args, batch_size, n_train_step, learning_schedule_pos,
                   learning_rate, lr, train_step, epoch, loader_batch_size,
                   unseen, sample_i, optimizer_steps, saved>>
    /\ UNCHANGED outside_train

\* lines 242-244: zero_grad, backward, step
Optimize ==
    /\ tpc = "optimize"
    /\ optimizer_steps' = optimizer_steps + 1
    /\ tpc' = "checkpoint"
    /\ UNCHANGED <<train_args, batch_size, n_train_step, learning_schedule_pos,
                   learning_rate, lr, train_step, epoch, loader_batch_size,
                   unseen, sample_i, saved, train_raised>>
    /\ UNCHANGED outside_train

\* a checkpoint one step early
CheckpointDue_Early(step, every) == ((step + 1) % every) = 0

\* line 260
CheckpointDue(step, every) == (step % every) = 0

\* lines 260-267: the checkpoint file is named after train_step
Checkpoint ==
    /\ tpc = "checkpoint"
    /\ saved' = IF CheckpointDue(train_step, n_step_per_checkpoint)
                THEN Append(saved, train_step)
                ELSE saved
    /\ tpc' = "for_batch"
    /\ UNCHANGED <<train_args, batch_size, n_train_step, learning_schedule_pos,
                   learning_rate, lr, train_step, epoch, loader_batch_size,
                   unseen, sample_i, optimizer_steps, train_raised>>
    /\ UNCHANGED outside_train

\* line 270: the checkpoint written after the last epoch
FinalSave ==
    /\ tpc = "final"
    /\ saved' = Append(saved, train_step)
    /\ tpc' = "returned"
    /\ UNCHANGED <<train_args, batch_size, n_train_step, learning_schedule_pos,
                   learning_rate, lr, train_step, epoch, loader_batch_size,
                   unseen, sample_i, optimizer_steps, train_raised>>
    /\ UNCHANGED outside_train

NextTrain ==
    \/ Begin
    \/ ForEpoch
    \/ ForEpochEnd
    \/ ForBatch
    \/ ForBatchEnd
    \/ Align
    \/ Interpolate2D
    \/ AppendSample
    \/ Forward
    \/ ComputeLoss
    \/ Optimize
    \/ Checkpoint
    \/ FinalSave

SpecTrain == InitTrain /\ [][NextTrain]_vars

(***************************************************************************)
(* Depth values: a rational or +infinity.  The reciprocal follows IEEE     *)
(* arithmetic as torch and numpy apply it: 1 / inf = 0 and 1 / 0 = inf.    *)
(***************************************************************************)
Fin(q) == [inf |-> FALSE, q |-> q]
Inf == [inf |-> TRUE, q |-> Zero]
IsZero(a) == ~a.inf /\ a.q = Zero
\* a < b
ELt(a, b) == ~a.inf /\ (b.inf \/ RLt(a.q, b.q))
Reciprocal(a) ==
    IF a.inf THEN Fin(Zero)
    ELSE IF a.q = Zero THEN Inf
    ELSE Fin(Rat(a.q[2], a.q[1]))

\* the grid with a and b as its first two entries and 0 elsewhere
DepthMapOf(a, b) ==
    Grid(TargetHeight, TargetWidth,
         [r \in 1..TargetHeight, c \in 1..TargetWidth |->
              IF r = 1 /\ c = 1 THEN a ELSE IF r = 1 /\ c = 2 THEN b ELSE Fin(Zero)])

\* depth grids as they are loaded: mostly empty, with entries at, inside and
\* outside the bounds 1 and 10
LoadedDepths ==
    {DepthMapOf(Fin(RInt(a)), Fin(RInt(b))) : a \in {0, 10}, b \in {0, 1, 5, 11}}

\* the sequences of 1..n elements of S
SeqsUpTo(S, n) == UNION {[1..k -> S] : k \in 1..n}

\* src/train.py line 165: (sparse_depth < max) * (sparse_depth > min)
TrainMask(T, lo, hi) ==
    [h |-> T.h, w |-> T.w,
     v |-> [k \in 1..Len(T.v) |-> ELt(T.v[k], Fin(hi.q)) /\ ELt(Fin(lo.q), T.v[k])]]

\* T[~valid] = np.inf (train.py line 167, detect_planes.py line 180)
FillInvalid(T, valid) ==
    [h |-> T.h, w |-> T.w,
     v |-> [k \in 1..Len(T.v) |-> IF valid.v[k] THEN T.v[k] ELSE Inf]]

\* 1.0 / T (train.py line 168, detect_planes.py line 181)
Invert(T) ==
    [h |-> T.h, w |-> T.w, v |-> [k \in 1..Len(T.v) |-> Reciprocal(T.v[k])]]

(***************************************************************************)
(* One training step on the tensors of a batch, src/train.py lines         *)
(* 156-219.  The batch the loader delivers is one tensor object; .to of    *)
(* line 159 returns that object itself when it is already on the device    *)
(* (cpu) and a copy otherwise (cuda), line 167 writes into the object      *)
(* sparse_depth names, and line 168 binds the name to a new tensor.  The   *)
(* per-sample tensors the callees outside src/ produce are named, not      *)
(* computed: [name, sample, tf] is the tensor `name` of sample `sample`,   *)
(* before (tf = FALSE) or after (tf = TRUE) ScaleMapLearner_transform.     *)
(***************************************************************************)
Devices == {"cpu", "cuda"}
\* a negative lower bound, and the lower bound 1 with the upper bound 10
TrainMinBounds == {Bound(RInt(-1)), Bound(RInt(1))}
MaxBounds == {Bound(RInt(10))}

InitStep ==
    /\ mode = "train"
    /\ dpc = "deliver"
    /\ device \in Devices
    /\ min_pred_depth \in TrainMinBounds
    /\ max_pred_depth \in MaxBounds
    /\ loaded \in SeqsUpTo(LoadedDepths, MaxBatch)
    /\ sparse_depth = <<>>
    /\ aliased = FALSE
    /\ sparse_depth_valid = <<>>
    /\ batch_x = <<>>
    /\ batch_d = <<>>
    /\ forward_x = <<>>
    /\ forward_d = <<>>
    /\ EvalIdle

step_args == <<device, min_pred_depth, max_pred_depth>>

\* lines 156-162: the batch is moved to the device and unpacked
Deliver ==
    /\ mode = "train"
    /\ dpc = "deliver"
    /\ sparse_depth' = loaded
    /\ aliased' = (device = "cpu")
    /\ dpc' = "valid"
    /\ UNCHANGED <<step_args, loaded, sparse_depth_valid, batch_x, batch_d,
                   forward_x, forward_d>>
    /\ UNCHANGED outside_step

\* lines 165-166
MaskSparse ==
    /\ mode = "train"
    /\ dpc = "valid"
    /\ sparse_depth_valid' =
           [b \in 1..Len(sparse_depth) |->
                TrainMask(sparse_depth[b], min_pred_depth, max_pred_depth)]
    /\ dpc' = "fill"
    /\ UNCHANGED <<step_args, loaded, sparse_depth, aliased, batch_x, batch_d,
                   forward_x, forward_d>>
    /\ UNCHANGED outside_step

\* the invalid entries written into a copy
FillTarget_Copy(filled) == loaded

\* line 167 writes into the tensor itself: the loader's batch when
\* sparse_depth is that object
FillTarget(filled) == IF aliased THEN filled ELSE loaded

\* line 167
FillSparse ==
    /\ mode = "train"
    /\ dpc = "fill"
    /\ sparse_depth' =
           [b \in 1..Len(sparse_depth) |->
                FillInvalid(sparse_depth[b], sparse_depth_valid[b])]
    /\ loaded' = FillTarget(sparse_depth')
    /\ dpc' = "invert"
    /\ UNCHANGED <<step_args, aliased, sparse_depth_valid, batch_x, batch_d,
                   forward_x, forward_d>>
    /\ UNCHANGED outside_step

\* line 168: a new tensor
InvertSparse ==
    /\ mode = "train"
    /\ dpc = "invert"
    /\ sparse_depth' = [b \in 1..Len(sparse_depth) |-> Invert(sparse_depth[b])]
    /\ aliased' = FALSE
    /\ dpc' = "for_sample"
    /\ UNCHANGED <<step_args, loaded, sparse_depth_valid, batch_x, batch_d,
                   forward_x, forward_d>>
    /\ UNCHANGED outside_step

Named(name, k, tf) == [name |-> name, sample |-> k, tf |-> tf]

\* lines 193-199: int_depth and int_depth_no_tf are the same aligned grid
SampleOf(k) ==
    [int_depth |-> Named("int_depth", k, FALSE),
     int_scales |-> Named("int_scales", k, FALSE),
     int_depth_no_tf |-> Named("int_depth", k, FALSE)]

\* line 201: the transform of the correction network's inputs; it leaves
\* int_depth_no_tf as it is
ScaleMapLearner_transform(sample) ==
    [int_depth |-> [sample.int_depth EXCEPT !.tf = TRUE],
     int_scales |-> [sample.int_scales EXCEPT !.tf = TRUE],
     int_depth_no_tf |-> sample.int_depth_no_tf]

\* the two channels the other way round
Concatenate_ScalesFirst(sample) == <<sample.int_scales, sample.int_depth>>

\* line 203: torch.cat((sample['int_depth'], sample['int_scales']), dim=0)
Concatenate(sample) == <<sample.int_depth, sample.int_scales>>

\* lines 175-210: sample i of the batch is aligned, its scale map is
\* interpolated, and its tensors join batch_x and batch_d
BuildSample ==
    /\ mode = "train"
    /\ dpc = "for_sample"
    /\ Len(batch_x) < Len(sparse_depth)
    /\ LET sample == ScaleMapLearner_transform(SampleOf(Len(batch_x) + 1))
       IN  /\ batch_x' = Append(batch_x, Concatenate(sample))
           /\ batch_d' = Append(batch_d, sample.int_depth_no_tf)
    /\ UNCHANGED <<step_args, dpc, loaded, sparse_depth, aliased,
                   sparse_depth_valid, forward_x, forward_d>>
    /\ UNCHANGED outside_step

\* lines 212-219: torch.stack keeps the order of the lists; the network is
\* run on the stacked tensors
ForwardPass ==
    /\ mode = "train"
    /\ dpc = "for_sample"
    /\ Len(batch_x) >= Len(sparse_depth)
    /\ forward_x' = batch_x
    /\ forward_d' = batch_d
    /\ dpc' = "done"
    /\ UNCHANGED <<step_args, loaded, sparse_depth, aliased, sparse_depth_valid,
                   batch_x, batch_d>>
    /\ UNCHANGED outside_step

(***************************************************************************)
(* Binary floating point with MantissaBits significant bits (IEEE single   *)
(* precision, the dtype of the depth grids): a float is m * 2^e with       *)
(* 2^(MantissaBits-1) <= m < 2^MantissaBits, or m = 0.  Sums and quotients *)
(* are rounded to nearest, ties to even.  Only non-negative values occur.  *)
(***************************************************************************)
MantissaBits == 24

RECURSIVE BitLength(_)
BitLength(n) == IF n = 0 THEN 0 ELSE 1 + BitLength(n \div 2)

\* the float nearest to s * 2^e, or to a value just above it when sticky
RoundFloat(s, e, sticky) ==
    LET k == BitLength(s) - MantissaBits
    IN  IF s = 0 THEN [m |-> 0, e |-> 0]
        ELSE IF k <= 0 THEN [m |-> s * Pow2(-k), e |-> e + k]
        ELSE LET q == s \div Pow2(k)
                 r == s % Pow2(k)
                 half == Pow2(k - 1)
                 up == r > half \/ (r = half /\ (sticky \/ q % 2 = 1))
                 m == IF up THEN q + 1 ELSE q
             IN  IF m = Pow2(MantissaBits)
                 THEN [m |-> Pow2(MantissaBits - 1), e |-> e + k + 1]
                 ELSE [m |-> m, e |-> e + k]

\* a + b, for exponents at most 6 apart
FAdd(a, b) ==
    IF a.m = 0 THEN b
    ELSE IF b.m = 0 THEN a
    ELSE LET lo == Min(a.e, b.e)
         IN  RoundFloat(a.m * Pow2(a.e - lo) + b.m * Pow2(b.e - lo), lo, FALSE)

\* a / n for an integer n in 1..32
FDiv(a, n) ==
    LET num == a.m * 64
    IN  RoundFloat(num \div n, a.e - 6, num % n # 0)

\* single precision 1.0 and the single precision number nearest to 0.9
FloatOne == [m |-> Pow2(MantissaBits - 1), e |-> 1 - MantissaBits]
FloatNineTenths == [m |-> (9 * Pow2(MantissaBits) + 5) \div 10, e |-> -MantissaBits]

(***************************************************************************)
(* metrics.ErrorMetricsAverager: running sums and a count; the average of  *)
(* a metric is its sum divided by the count.  One metric (rmse) is         *)
(* followed; the others are handled alike.  accumulated lists the metrics  *)
(* that were handed to the two averagers, image by image.                  *)
(***************************************************************************)
Accumulate(avg, rmse) ==
    [rmse_sum |-> FAdd(avg.rmse_sum, rmse), total_count |-> avg.total_count + 1]

\* the average accessor, for a count of at least one
Average(avg) == FDiv(avg.rmse_sum, avg.total_count)

\* what reading an average with nothing accumulated may do
EmptyAverageOutcomes == {"ZeroDivisionError", "nan"}

(***************************************************************************)
(* The evaluation run, src/detect_planes.py lines 139-233.                 *)
(***************************************************************************)
\* largest number of test images
MaxImages == 3

\* min_depth is a number or None
EvalMinBounds == {NoBound, Bound(RInt(1))}

\* the ground truths of the test set
TargetDepths ==
    {DepthMapOf(Fin(Zero), Fin(RInt(5))),
     DepthMapOf(Fin(Zero), Fin(Zero)),
     DepthMapOf(Fin(RInt(10)), Fin(RInt(11)))}

\* the rmse of the two estimates of one image (GA only, GA+SML)
MetricPairs == {<<FloatNineTenths, FloatOne>>, <<FloatOne, FloatOne>>}

InitEval ==
    /\ mode = "eval"
    /\ dpc = "for_image"
    /\ min_depth \in EvalMinBounds
    /\ max_depth \in MaxBounds
    /\ n_images \in 0..MaxImages
    /\ image_i = 0
    /\ target_depth = NoTensor
    /\ target_mask = NoTensor
    /\ target_depth_inv = NoTensor
    /\ avg_error_w_int_depth = EmptyAverager
    /\ avg_error_w_pred = EmptyAverager
    /\ accumulated = <<>>
    /\ summary = NoSummary
    /\ StepIdle

eval_args == <<min_depth, max_depth, n_images>>

\* line 174: T[T <= 0] = 0.0
ClampNonPositive(T) ==
    [h |-> T.h, w |-> T.w,
     v |-> [k \in 1..Len(T.v) |->
               IF ~ELt(Fin(Zero), T.v[k]) THEN Fin(Zero) ELSE T.v[k]]]

\* lines 177-179: (target_depth < max_depth), times (target_depth >
\* min_depth) when min_depth is not None
EvalMask(T, lo, hi) ==
    [h |-> T.h, w |-> T.w,
     v |-> [k \in 1..Len(T.v) |->
               /\ ELt(T.v[k], Fin(hi.q))
               /\ lo.none \/ ELt(Fin(lo.q), T.v[k])]]

\* lines 159-174: the ground truth of the next test image is read
LoadTarget ==
    /\ mode = "eval"
    /\ dpc = "for_image"
    /\ image_i < n_images
    /\ \E T \in TargetDepths : target_depth' = ClampNonPositive(T)
    /\ dpc' = "mask"
    /\ UNCHANGED <<eval_args, image_i, target_mask, target_depth_inv,
                   avg_error_w_int_depth, avg_error_w_pred, accumulated, summary>>
    /\ UNCHANGED outside_eval

\* lines 177-179
MaskTarget ==
    /\ mode = "eval"
    /\ dpc = "mask"
    /\ target_mask' = EvalMask(target_depth, min_depth, max_depth)
    /\ dpc' = "fill"
    /\ UNCHANGED <<eval_args, image_i, target_depth, target_depth_inv,
                   avg_error_w_int_depth, avg_error_w_pred, accumulated, summary>>
    /\ UNCHANGED outside_eval

\* line 180
FillTargetDepth ==
    /\ mode = "eval"
    /\ dpc = "fill"
    /\ target_depth' = FillInvalid(target_depth, target_mask)
    /\ dpc' = "invert"
    /\ UNCHANGED <<eval_args, image_i, target_mask, target_depth_inv,
                   avg_error_w_int_depth, avg_error_w_pred, accumulated, summary>>
    /\ UNCHANGED outside_eval

\* line 181
InvertTarget ==
    /\ mode = "eval"
    /\ dpc = "invert"
    /\ target_depth_inv' = Invert(target_depth)
    /\ dpc' = "metrics"
    /\ UNCHANGED <<eval_args, image_i, target_depth, target_mask,
                   avg_error_w_int_depth, avg_error_w_pred, accumulated, summary>>
    /\ UNCHANGED outside_eval

\* how often line 209 and line 210 each accumulate: once
AccumulateEach_Never(avg, rmse) == avg

AccumulateEach(avg, rmse) == Accumulate(avg, rmse)

\* lines 183-210: the estimates are computed, their error metrics are
\* computed, and each averager accumulates the metrics of its estimate
Evaluate ==
    /\ mode = "eval"
    /\ dpc = "metrics"
    /\ \E pair \in MetricPairs :
         /\ avg_error_w_int_depth' = AccumulateEach(avg_error_w_int_depth, pair[1])
         /\ avg_error_w_pred' = AccumulateEach(avg_error_w_pred, pair[2])
         /\ accumulated' = Append(accumulated, pair)
    /\ image_i' = image_i + 1
    /\ dpc' = "for_image"
    /\ UNCHANGED <<eval_args, target_depth, target_mask, target_depth_inv, summary>>
    /\ UNCHANGED outside_eval

\* lines 222-233: the averages are read for the summary table
Summary ==
    /\ mode = "eval"
    /\ dpc = "for_image"
    /\ image_i >= n_images
    /\ IF avg_error_w_int_depth.total_count = 0 \/ avg_error_w_pred.total_count = 0
       THEN \E outcome \in EmptyAverageOutcomes :
                summary' = [kind |-> outcome, ga_only |-> NoFloat, ga_sml |-> NoFloat]
       ELSE summary' = [kind |-> "table",
                        ga_only |-> Average(avg_error_w_int_depth),
                        ga_sml |-> Average(avg_error_w_pred)]
    /\ dpc' = "done"
    /\ UNCHANGED <<eval_args, image_i, target_depth, target_mask, target_depth_inv,
                   avg_error_w_int_depth, avg_error_w_pred, accumulated>>
    /\ UNCHANGED outside_eval

InitData ==
    /\ TrainIdle
    /\ CallsIdle
    /\ LossIdle
    /\ loss_func = ""
    /\ InitStep \/ InitEval

NextData ==
    \/ Deliver
    \/ MaskSparse
    \/ FillSparse
    \/ InvertSparse
    \/ BuildSample
    \/ ForwardPass
    \/ LoadTarget
    \/ MaskTarget
    \/ FillTargetDepth
    \/ InvertTarget
    \/ Evaluate
    \/ Summary

SpecData == InitData /\ [][NextData]_vars

(***************************************************************************)
(* Vocabulary of the properties.                                           *)
(***************************************************************************)
NumScales == Len(output_depth.items)
ReturnedTuple == pc = "done" /\ returned.kind = "tuple"
Info == returned.loss_info
Positive(r) == RLt(Zero, r)
\* the prediction can be indexed by the validity mask once line 24 has run
Indexable(T) == Shape(Resized(T, ground_truth)) = Shape(ground_truth)
AllIndexable == \A j \in 1..NumScales : Indexable(output_depth.items[j])
\* T and U have the same shape and agree wherever ground_truth > 0
AgreeOnValid(T, U) ==
    /\ Shape(T) = Shape(U)
    /\ Shape(T) = Shape(ground_truth)
    /\ \A k \in 1..Len(T.v) : Positive(ground_truth.v[k]) => T.v[k] = U.v[k]
HasValidPixel == \E k \in 1..Len(ground_truth.v) : Positive(ground_truth.v[k])
HasInvalidPixel == \E k \in 1..Len(ground_truth.v) : ~Positive(ground_truth.v[k])

\* C1: for a list of n >= 1 predictions the returned loss_supervised is the
\* sum over every scale i in 0..n-1 of w_i * L(output_i, ground_truth) on the
\* valid pixels, with w_i = 1 / 2^(n - i - 1).
C1_EveryScaleAccumulated ==
    (ReturnedTuple /\ NumScales >= 1 /\ AllIndexable) =>
        Info.loss_supervised =
            SSum([j \in 1..NumScales |->
                    SupervisedTerm(loss_func, <<1, Pow2(NumScales - j)>>,
                                   Resized(output_depth.items[j], ground_truth),
                                   ground_truth, ValidityMap(ground_truth))])

\* C2: with a loss name other than l1, l2, smoothl1 the call ends by raising
\* the unknown-loss-function error and returns nothing, whatever output_depth
\* is (a tensor, or a list of any length, the empty list included).
C2_UnknownNameRaises ==
    (pc = "done" /\ loss_func \notin KnownLossFuncs) =>
        /\ raised = "ValueError: Unknown loss function"
        /\ returned = Pending

\* C3: for each of the three loss families and every ground truth, one with
\* no valid pixel included, loss_supervised is 0 when every prediction equals
\* the ground truth at every pixel where ground_truth > 0.
C3_ZeroWhenEqualOnValid ==
    (/\ pc = "done"
     /\ loss_func \in KnownLossFuncs
     /\ NumScales >= 1
     /\ \A j \in 1..NumScales : AgreeOnValid(output_depth.items[j], ground_truth))
        => (returned.kind = "tuple" /\ Info.loss_supervised = SZero)

\* C4: a call that returns a loss returns loss = loss_supervised +
\* w_smoothness * loss_smoothness, the mapping holds exactly the three values
\* under 'loss', 'loss_supervised', 'loss_smoothness'; and when w_smoothness
\* is not positive loss_smoothness is 0 and loss equals loss_supervised.
C4_TotalIsSupervisedPlusWeightedSmoothness ==
    ReturnedTuple =>
        /\ returned.loss =
               SAdd(Info.loss_supervised, SScale(w_smoothness, Info.loss_smoothness))
        /\ DOMAIN Info = {"loss", "loss_supervised", "loss_smoothness"}
        /\ Info.loss = returned.loss
        /\ Info.loss_supervised = loss_supervised
        /\ Info.loss_smoothness = loss_smoothness
        /\ ~Positive(w_smoothness) =>
               (Info.loss_smoothness = SZero /\ returned.loss = Info.loss_supervised)

C4_Witness ==
    /\ ReturnedTuple
    /\ Positive(w_smoothness)
    /\ ~Info.loss_smoothness.nan /\ Info.loss_smoothness # SZero
    /\ ~Info.loss_supervised.nan /\ Info.loss_supervised # SZero
    /\ returned.loss # Info.loss_supervised

\* T with the pixels ks overwritten by x
Overwritten(T, ks, x) ==
    [T EXCEPT !.v = [k \in 1..Len(T.v) |-> IF k \in ks THEN RInt(x) ELSE T.v[k]]]

\* the pixels where ground_truth <= 0
InvalidPixels == {k \in 1..Len(ground_truth.v) : ~RLt(Zero, ground_truth.v[k])}

\* the grids that differ from T in one invalid pixel, or in all of them, with
\* the least value or a value no prediction holds there
AltPredictions(T) ==
    {Overwritten(T, ks, x) :
        ks \in {{k} : k \in InvalidPixels} \cup {InvalidPixels},
        x \in {0, MaxPixel + 2}}

\* C5: loss_supervised depends only on the pixels where ground_truth > 0: a
\* call whose predictions agree with this call's at every valid pixel and
\* differ elsewhere (in one invalid pixel of one prediction, or in all of
\* them) has the same loss_supervised.
C5_SupervisedIgnoresInvalidPixels ==
    ReturnedTuple =>
        /\ Info.loss_supervised =
               SupervisedOfCall(output_depth.items, ground_truth, loss_func)
        /\ \A j \in 1..NumScales : \A alt \in AltPredictions(output_depth.items[j]) :
               AgreeOnValid(alt, output_depth.items[j]) =>
                   SupervisedOfCall([output_depth.items EXCEPT ![j] = alt],
                                    ground_truth, loss_func)
                       = Info.loss_supervised

C5_Witness ==
    /\ ReturnedTuple
    /\ HasValidPixel /\ HasInvalidPixel
    /\ Info.loss_supervised # SZero
    /\ \E alt \in AltPredictions(output_depth.items[1]) :
           /\ AgreeOnValid(alt, output_depth.items[1])
           /\ alt # output_depth.items[1]

\* C6: when w_smoothness > 0 exactly one smoothness variant is evaluated per
\* invocation, the finite-difference one for a kernel size <= 1 and the Sobel
\* one for a kernel size > 1; the term is never skipped.
C6_OneVariantPerInvocation ==
    (ReturnedTuple /\ Positive(w_smoothness)) =>
        smoothness_variant =
            (IF loss_smoothness_kernel_size <= 1 THEN "finite_difference" ELSE "sobel")

\* C7: when the supervised loss is taken the prediction has the ground
\* truth's height and width: a coarser prediction has been resized to it, a
\* prediction already at that resolution has been left alone.
C7_PredictionAtTargetShape ==
    pc = "supervised" =>
        /\ Shape(output) = Shape(ground_truth)
        /\ Shape(output_depth.items[scale + 1]) = Shape(ground_truth) => ~resized

\* C8: the weight of scale i of n is 1 / 2^(n - i - 1): strictly increasing
\* in i, exactly 1 for the last scale, and exactly 1 for a single scale.
C8_ScaleWeights ==
    pc \in {"supervised", "smoothness", "total"} =>
        /\ RMul(w_scale, RInt(Pow2(NumScales - scale - 1))) = One
        /\ \A i \in 0..(NumScales - 1) :
               RMul(WScale(NumScales, i), RInt(Pow2(NumScales - i - 1))) = One
        /\ \A i \in 0..(NumScales - 2) :
               RLt(WScale(NumScales, i), WScale(NumScales, i + 1))
        /\ WScale(NumScales, NumScales - 1) = One
        /\ NumScales = 1 => w_scale = One

C8_Witness ==
    /\ pc = "supervised"
    /\ NumScales >= 2
    /\ RLt(w_scale, One)

\* the sum of the weights of all n scales
SumWeights(n) == RSum([j \in 1..n |-> WScale(n, j - 1)])

\* C9 (as stated): for every finite number of scales the weights do not sum
\* to 1.
C9_SumNeverOne ==
    pc = "for" => SumWeights(NumScales) # One

\* C9 (amended): the weights of n >= 1 scales sum to 2 - 1 / 2^(n - 1): to
\* exactly 1 for a single scale, and to more than 1 and less than 2 for
\* n >= 2, growing with n towards 2.
C9_SumOfWeights ==
    (pc = "for" /\ NumScales >= 1) =>
        /\ SumWeights(NumScales) = RSub(RInt(2), <<1, Pow2(NumScales - 1)>>)
        /\ NumScales = 1 => SumWeights(NumScales) = One
        /\ NumScales >= 2 =>
               (RLt(One, SumWeights(NumScales)) /\ RLt(SumWeights(NumScales), RInt(2)))
        /\ RLt(SumWeights(NumScales), SumWeights(NumScales + 1))
        /\ RLt(SumWeights(NumScales + 1), RInt(2))

C9_Witness ==
    /\ pc = "for"
    /\ NumScales >= 2
    /\ RLt(One, SumWeights(NumScales))

\* C10: with w_smoothness > 0 and n >= 2 predictions the reported smoothness
\* term is the one of the finest prediction, the last element of the list.
C10_SmoothnessOfFinestScale ==
    (/\ ReturnedTuple
     /\ NumScales >= 2
     /\ Positive(w_smoothness)
     /\ loss_smoothness_kernel_size <= 1
     /\ Indexable(output_depth.items[NumScales]))
        => Info.loss_smoothness =
               smoothness_loss_func(
                   Resized(output_depth.items[NumScales], ground_truth), image)

(***************************************************************************)
(* Properties of the training loop.                                        *)
(***************************************************************************)
\* a batch of the current epoch is being processed
InBatch == tpc \in {"for_sample", "interpolate", "append", "loss", "optimize",
                    "checkpoint"}
InEpoch == InBatch \/ tpc = "for_batch"
\* the smallest (1-based) index k with e <= learning_schedule[k]
SmallestIndex(e) ==
    CHOOSE k \in 1..Len(learning_schedule) :
        /\ e <= learning_schedule[k]
        /\ \A j \in 1..(k - 1) : e > learning_schedule[j]
\* the multiples of every among 1..n, ascending
RECURSIVE MultiplesUpTo(_, _)
MultiplesUpTo(n, every) ==
    IF n = 0 THEN <<>>
    ELSE IF n % every = 0 THEN Append(MultiplesUpTo(n - 1, every), n)
    ELSE MultiplesUpTo(n - 1, every)
\* the least q with q * b >= n
Ceiling(n, b) == CHOOSE q \in 0..n : q * b >= n /\ (q - 1) * b < n

\* C15: when compute_ls_solution, the scale map interpolation or
\* compute_loss raises in a training step, train ends there with that error:
\* nothing runs after it, the optimizer has stepped for the earlier batches
\* only, no checkpoint is written for the batch, and the batch holds the
\* samples processed before the error and no substitute for the failed one.
C15_ErrorsPropagate ==
    train_raised # "none" =>
        /\ tpc = "raised"
        /\ ~ENABLED NextTrain
        /\ optimizer_steps = train_step - 1
        /\ \A k \in 1..Len(saved) : saved[k] < train_step
        /\ train_raised \in {"compute_ls_solution", "generate_interpolated_scale_map"}
               => sample_i < batch_size

C15_Witness ==
    /\ train_raised = "generate_interpolated_scale_map"
    /\ train_step >= 2
    /\ sample_i = 1
    /\ Len(saved) >= 1

\* C18: for a strictly increasing learning_schedule and as many
\* learning_rates, in every epoch e the rate of the optimizer is
\* learning_rates[k] for the smallest k with e <= learning_schedule[k];
\* learning_schedule_pos never decreases, grows by at most one and only at
\* the start of an epoch, and stays inside both lists.
C18_RateFollowsSchedule ==
    /\ [](StrictlyIncreasing(learning_schedule)
          /\ Len(learning_rates) = Len(learning_schedule)
          => /\ train_raised # "IndexError"
             /\ learning_schedule_pos < Len(learning_schedule)
             /\ learning_schedule_pos < Len(learning_rates)
             /\ InEpoch => /\ epoch \in 1..Last(learning_schedule)
                           /\ learning_schedule_pos + 1 = SmallestIndex(epoch)
                           /\ lr = learning_rates[SmallestIndex(epoch)])
    /\ [][/\ learning_schedule_pos' >= learning_schedule_pos
          /\ learning_schedule_pos' <= learning_schedule_pos + 1
          /\ learning_schedule_pos' # learning_schedule_pos => epoch' = epoch + 1]_vars

C18_Witness ==
    /\ tpc = "optimize"
    /\ Len(learning_schedule) >= 3
    /\ learning_schedule_pos = 2
    /\ lr = learning_rates[3]
    /\ epoch > learning_schedule[2]

\* C19: train_step grows by exactly one with every batch the loader delivers
\* and not otherwise; when train returns, the checkpoints written in the loop
\* are those of the steps divisible by n_step_per_checkpoint, each named
\* after its step, one more was written after the last epoch, named after
\* the final train_step, and that step is learning_schedule[-1] *
\* ceil(n_train_sample / batch_size) = n_train_step.
C19_StepsAndCheckpoints ==
    /\ [](tpc = "returned" =>
            /\ train_step = Last(learning_schedule)
                              * Ceiling(n_train_sample, loader_batch_size)
            /\ train_step = n_train_step
            /\ saved = Append(MultiplesUpTo(train_step, n_step_per_checkpoint),
                              train_step))
    /\ [][/\ (tpc = "for_batch" /\ tpc' = "for_sample") => train_step' = train_step + 1
          /\ train_step' # train_step => (tpc = "for_batch" /\ tpc' = "for_sample")]_vars

C19_Witness ==
    /\ tpc = "returned"
    /\ n_train_sample % loader_batch_size # 0
    /\ n_step_per_checkpoint = 2
    /\ train_step % 2 = 0
    /\ Len(saved) >= 3
    /\ learning_schedule_pos >= 1

\* C16: compute_loss leaves the objects it is passed as they are (image,
\* ground_truth, the configuration, and the tensors of output_depth, which a
\* lone tensor is wrapped around and a list is not written to), and a call
\* with the arguments of an earlier call, directly after it or after a call
\* with other arguments, ends as the earlier call ended: the same returned
\* value or the same error.
C16_PureFunction ==
    call # "none" =>
        /\ image = passed.image
        /\ ground_truth = passed.ground_truth
        /\ loss_func = passed.loss_func
        /\ w_smoothness = passed.w_smoothness
        /\ loss_smoothness_kernel_size = passed.loss_smoothness_kernel_size
        /\ output_depth.items = passed.output_depth.items
        /\ (call = "again" /\ pc = "done") =>
               /\ passed = first.args
               /\ returned = first.returned
               /\ raised = first.raised

C16_Witness ==
    /\ call = "again"
    /\ pc = "done"
    /\ first.between
    /\ returned.kind = "tuple"
    /\ resized
    /\ Info.loss_supervised # SZero
    /\ Info.loss_smoothness # SZero

(***************************************************************************)
(* Properties of the tensors of a training step and of an evaluation run.  *)
(***************************************************************************)
\* d is a usable depth under the bounds: strictly between them (a bound of
\* None does not restrict), not zero and finite
Usable(d, lo, hi) ==
    /\ ~d.inf
    /\ ~IsZero(d)
    /\ ELt(d, Fin(hi.q))
    /\ lo.none \/ ELt(Fin(lo.q), d)
\* the mask the validity masking is to yield
UsableMask(T, lo, hi) ==
    [h |-> T.h, w |-> T.w, v |-> [k \in 1..Len(T.v) |-> Usable(T.v[k], lo, hi)]]
\* the masking has run on the grids that are still as they were loaded
TrainMasked == mode = "train" /\ dpc = "fill"
EvalMasked == mode = "eval" /\ dpc = "fill"
\* the reciprocal is about to be taken
TrainInverting == mode = "train" /\ dpc = "invert"
EvalInverting == mode = "eval" /\ dpc = "invert"
NoZeroEntry(T) == \A k \in 1..Len(T.v) : ~IsZero(T.v[k])

\* C11: the mask is true exactly at the entries strictly between the bounds
\* that are neither zero nor non-finite, in training (also with a negative
\* lower bound) and in evaluation (also with min_depth = None); a grid with no
\* usable entry gets an all-false mask.
C11_MaskIsExactlyTheUsableEntries ==
    /\ TrainMasked =>
           \A b \in 1..Len(sparse_depth) :
               sparse_depth_valid[b] =
                   UsableMask(sparse_depth[b], min_pred_depth, max_pred_depth)
    /\ EvalMasked =>
           target_mask = UsableMask(target_depth, min_depth, max_depth)

\* C12: when the reciprocal of a depth grid is taken no entry of it is zero:
\* every entry outside the mask has been replaced by infinity and every other
\* entry lies strictly between the bounds, in training and, for every setting
\* of min_depth, in evaluation.
C12_NoReciprocalOfZero ==
    /\ TrainInverting =>
           \A b \in 1..Len(sparse_depth) :
               /\ NoZeroEntry(sparse_depth[b])
               /\ \A k \in 1..Len(sparse_depth[b].v) :
                      \/ sparse_depth[b].v[k] = Inf
                      \/ Usable(sparse_depth[b].v[k], min_pred_depth, max_pred_depth)
    /\ EvalInverting =>
           /\ NoZeroEntry(target_depth)
           /\ \A k \in 1..Len(target_depth.v) :
                  \/ target_depth.v[k] = Inf
                  \/ Usable(target_depth.v[k], min_depth, max_depth)

\* the network has been run on the batch
Forwarded == mode = "train" /\ dpc = "done"

C17_LoadedGridUnchanged == [][loaded' = loaded]_vars

\* the summary table has been printed
Summarised == mode = "eval" /\ dpc = "done" /\ summary.kind = "table"
\* every record the averager of estimate j accumulated had the rmse v
AllAccumulated(j, v) == \A k \in 1..Len(accumulated) : accumulated[k][j] = v
\* k * v is a float for every k in 1..n: the running sum is exact throughout
PartialSumsExact(v, n) ==
    \A k \in 1..n :
        LET s == RoundFloat(k * v.m, v.e, FALSE)
        IN  s.e >= v.e /\ s.m * Pow2(s.e - v.e) = k * v.m
\* the metric values an averager may be handed
MetricValues == {FloatOne, FloatNineTenths}
OncePerImage ==
    /\ avg_error_w_int_depth.total_count = Len(accumulated)
    /\ avg_error_w_pred.total_count = Len(accumulated)
    /\ Len(accumulated) = image_i
    /\ dpc = "done" => Len(accumulated) = n_images
    /\ dpc # "done" => summary = NoSummary

====
